---- MODULE Spec2Model ----
(***************************************************************************)
(* Model of the gift bot: db.py (the SQLite tables users, promo_codes and  *)
(* settings and the coroutines over them) and main.py (the cb_claim        *)
(* callback handler and the admin/user commands).  Every await of cb_claim *)
(* is a scheduling point: a handler invocation is a sequence of steps, and *)
(* the steps of different invocations interleave.  Each db.py coroutine    *)
(* opens its own connection; one SQL statement (with its commit) is one    *)
(* step.                                                                   *)
(*                                                                         *)
(* Encoding: user ids, codes and unix times are positive integers; the     *)
(* SQL NULL / Python None of each is 0 (None).                             *)
(***************************************************************************)
EXTENDS Integers, Sequences, FiniteSets, TLC

\* ---------------------------------------------------------------- bounds
MaxClaims == 2      \* cb_claim invocations in one behaviour
MaxUsers == 2       \* distinct Telegram user ids
MaxCodes == 2       \* distinct promo code strings
MaxTime == 2        \* unix clock values
MaxAddLen == 2      \* codes in one /add command
MaxLimit == 2       \* largest numeric argument of /export

None == 0
Claims == 1..MaxClaims
UserIds == 1..MaxUsers
Codes == 1..MaxCodes
Times == 1..MaxTime
Requests == Claims        \* one webhook request can start one cb_claim
NoLimit == -1             \* export_remaining_codes(limit=None)
Limits == 0..MaxLimit

VARIABLES
    ONLY_ONCE,        \* main.py:26, fixed at process start
    DEFAULT_GIFT_ID,  \* main.py:47, None when GIFTS is empty
    users,            \* table users: rows [user_id, first_seen]
    promo_codes,      \* table promo_codes: rows [code, used_by, used_at]
    settings,         \* table settings: rows [key, value]
    now,              \* the unix clock (time.time(), strftime('%s','now'))
    claim,            \* per cb_claim invocation: its position and locals
    readded,          \* history: some /add named a code that was already used
    WEBHOOK_URL,      \* main.py:28, "" selects long polling
    startup_state,    \* main.py:286-307: how the FastAPI startup hook ended
    webhook_ready,    \* main.py:284
    request,          \* per POST to WEBHOOK_PATH: its position and response
    reply             \* the answer to the last /balance or /export

web == <<WEBHOOK_URL, startup_state, webhook_ready, request>>

vars ==
    <<ONLY_ONCE, DEFAULT_GIFT_ID, users, promo_codes, settings, now, claim, readded,
      web, reply>>

config == <<ONLY_ONCE, DEFAULT_GIFT_ID>>

\* ------------------------------------------------------------------ db.py

\* mutant: the receipt is looked up under a key that is never written
get_setting_miss(tbl, key) == None

\* get_setting: SELECT value FROM settings WHERE key=?; row[0] if row else None
get_setting(tbl, key) ==
    IF \E r \in tbl : r.key = key
    THEN (CHOOSE r \in tbl : r.key = key).value
    ELSE None

\* set_setting: INSERT ... ON CONFLICT(key) DO UPDATE SET value=excluded.value
set_setting(tbl, key, value) ==
    IF \E r \in tbl : r.key = key
    THEN {IF r.key = key THEN [r EXCEPT !.value = value] ELSE r : r \in tbl}
    ELSE tbl \cup {[key |-> key, value |-> value]}

\* upsert_user: INSERT OR IGNORE INTO users(user_id, username, first_seen)
upsert_user(tbl, user_id, t) ==
    IF \E r \in tbl : r.user_id = user_id
    THEN tbl
    ELSE tbl \cup {[user_id |-> user_id, first_seen |-> t]}

\* the rows matched by WHERE used_by IS NULL
AvailableRows(tbl) == {r \in tbl : r.used_by = None}

\* count_available_codes: SELECT COUNT(*) FROM promo_codes WHERE used_by IS NULL
count_available_codes(tbl) == Cardinality(AvailableRows(tbl))

\* mutant: the SELECT without its WHERE used_by IS NULL
SelectAnyRow(tbl) == tbl

\* take_code_for_user, first statement: the rows SELECT ... LIMIT 1 may return
\* (no ORDER BY: any one of the matching rows)
SelectCandidates(tbl) == AvailableRows(tbl)

\* take_code_for_user, second statement:
\* UPDATE promo_codes SET used_by=?, used_at=strftime('%s','now') WHERE code=?
UpdateUsed(tbl, code, user_id, t) ==
    {IF r.code = code THEN [r EXCEPT !.used_by = user_id, !.used_at = t] ELSE r
        : r \in tbl}

\* mutant: INSERT OR REPLACE, which resets the row of a known code
InsertOrReplace(tbl, code) ==
    {r \in tbl : r.code # code}
        \cup {[code |-> code, used_by |-> None, used_at |-> None]}

\* one row of executemany: INSERT OR IGNORE INTO promo_codes(code) VALUES(?)
InsertOrIgnore(tbl, code) ==
    IF \E r \in tbl : r.code = code
    THEN tbl
    ELSE tbl \cup {[code |-> code, used_by |-> None, used_at |-> None]}

RECURSIVE InsertMany(_, _)
InsertMany(tbl, codes) ==
    IF codes = <<>> THEN tbl
    ELSE InsertMany(InsertOrIgnore(tbl, Head(codes)), Tail(codes))

\* add_codes: nothing on an empty list, else executemany + commit
add_codes(tbl, codes) ==
    IF codes = <<>> THEN tbl ELSE InsertMany(tbl, codes)

\* ---------------------------------------------------------------- main.py

\* is_subscribed: member.status in ("member", "administrator", "creator");
\* an exception of get_chat_member gives False
MemberStatuses == {"member", "administrator", "creator", "left", "kicked", "raise"}
\* mutant: an exception of get_chat_member counts as subscribed
is_subscribed_unless_left(status) == status \notin {"left", "kicked"}

is_subscribed(status) == status \in {"member", "administrator", "creator"}

\* f"gift_received_{user.id}"
gift_received(user_id) == <<"gift_received", user_id>>

\* mutant: the `if not sub:` branch does not return
AfterSubscribedNoReturn(sub, only_once, gift_id) ==
    IF only_once THEN "get_setting"
    ELSE IF gift_id # None THEN "send_gift" ELSE "take_select"

\* cb_claim after the subscription check: `if not sub: ... return`, else
\* `if ONLY_ONCE:` reads the receipt
AfterSubscribed(sub, only_once, gift_id) ==
    IF ~sub THEN "done"
    ELSE IF only_once THEN "get_setting"
    ELSE IF gift_id # None THEN "send_gift" ELSE "take_select"

\* cb_claim after the receipt check: `if already: ... return`, else
\* `if DEFAULT_GIFT_ID:` sends the gift, else `if not sent:` takes a code
AfterReceiptCheck(already, gift_id) ==
    IF already # None THEN "done"
    ELSE IF gift_id # None THEN "send_gift" ELSE "take_select"

\* mutant: a code is taken even when the star gift was sent
AfterStarGiftAlwaysCode(sent) == "take_select"

\* mutant: no fallback to the promo codes when the star gift failed
AfterStarGiftNoFallback(sent) == "mark"

\* cb_claim: `if not sent:` falls back to the promo codes
AfterStarGift(sent) == IF ~sent THEN "take_select" ELSE "mark"

\* mutant: the failed promo message does not end the call
AfterSendPromoAlwaysMark(ok) == "mark"

\* cb_claim: `if not ok: ... return`
AfterSendPromo(ok) == IF ok THEN "mark" ELSE "done"

\* mutant: take_code_for_user returns before its commit
AfterUpdateNoCommit == "send_promo"

\* take_code_for_user: the UPDATE is followed by `await db.commit()`
AfterUpdate == "take_commit"

IdleClaim ==
    [pc |-> "idle", user |-> None, inserted |-> FALSE, sub |-> FALSE,
     already |-> None, sent |-> FALSE, row |-> None, code_row |-> None,
     ok |-> FALSE, attempts |-> 0, takes |-> 0, after_grant |-> FALSE,
     raised |-> FALSE, txn |-> FALSE, used_at |-> None, result |-> "none"]

Results ==
    {"none", "NotSubscribed", "AlreadyClaimed", "Exhausted", "DeliveryFailed",
     "GrantedPremium", "GrantedToken"}

Granted == {"GrantedPremium", "GrantedToken"}

InFlight(c) == claim[c].pc \notin {"idle", "done"}

\* ------------------------------------------------------------------- Init
\* The tables persist across process starts (CREATE TABLE IF NOT EXISTS):
\* promo_codes starts with any number of codes an admin added, all unused.
IdleRequest == [pc |-> "idle", body |-> "none", user |-> None, status |-> 0,
                claim |-> None]

NoReply == [cmd |-> "none", limit |-> NoLimit, codes |-> {}, left |-> 0]

BaseInit ==
    /\ ONLY_ONCE \in BOOLEAN
    /\ DEFAULT_GIFT_ID \in {None, 1}
    /\ users = {}
    /\ \E k \in 0..MaxCodes :
         promo_codes = {[code |-> c, used_by |-> None, used_at |-> None] : c \in 1..k}
    /\ settings = {}
    /\ now = 1
    /\ claim = [c \in Claims |-> IdleClaim]
    /\ readded = FALSE
    /\ request = [r \in Requests |-> IdleRequest]
    /\ reply = NoReply
    /\ webhook_ready = FALSE

\* long polling (asyncio.run(main())): no WEBHOOK_URL, the web app never starts
Init ==
    /\ BaseInit
    /\ WEBHOOK_URL = ""
    /\ startup_state = "polling"

\* ---------------------------------------------------------------- actions

\* SQLite admits one write transaction at a time; a second writer waits (the
\* connection's busy timeout) until the first has committed.
NoWriter == \A c \in Claims : ~claim[c].txn

Tick ==
    /\ now < MaxTime
    /\ now' = now + 1
    /\ UNCHANGED <<config, users, promo_codes, settings, claim, readded, web, reply>>

\* cmd_add with a non-empty argument list
cmd_add(codes) ==
    /\ NoWriter
    /\ promo_codes' = add_codes(promo_codes, codes)
    /\ readded' = (readded \/ \E i \in DOMAIN codes, r \in promo_codes :
                                  r.code = codes[i] /\ r.used_by # None)
    /\ UNCHANGED <<config, users, settings, now, claim, web, reply>>

\* cb_claim: the callback arrives; callback.answer()
BeginClaim(c, u) ==
    /\ claim[c].pc = "idle"
    /\ \A d \in Claims : d < c => claim[d].pc # "idle"
    /\ claim' = [claim EXCEPT ![c].pc = "upsert_user", ![c].user = u,
                    ![c].after_grant =
                        \E d \in Claims : /\ claim[d].user = u
                                          /\ claim[d].pc = "done"
                                          /\ claim[d].result \in Granted]

\* long polling hands the callback query to cb_claim
cb_claim_begin(c, u) ==
    /\ BeginClaim(c, u)
    /\ UNCHANGED <<config, users, promo_codes, settings, now, readded, web, reply>>

\* cb_claim: await upsert_user(user.id, user.username)
cb_claim_upsert_user(c) ==
    /\ claim[c].pc = "upsert_user"
    /\ NoWriter
    /\ users' = upsert_user(users, claim[c].user, now)
    /\ claim' = [claim EXCEPT ![c].pc = "is_subscribed",
                    ![c].inserted = (users' # users)]
    /\ UNCHANGED <<config, promo_codes, settings, now, readded, web, reply>>

\* cb_claim: sub = await is_subscribed(...); if not sub: edit_text; return
cb_claim_is_subscribed(c, status) ==
    /\ claim[c].pc = "is_subscribed"
    /\ LET sub == is_subscribed(status) IN
       claim' = [claim EXCEPT
                    ![c].sub = sub,
                    ![c].raised = (status = "raise"),
                    ![c].pc = AfterSubscribed(sub, ONLY_ONCE, DEFAULT_GIFT_ID),
                    ![c].result = IF sub THEN "none" ELSE "NotSubscribed"]
    /\ UNCHANGED <<config, users, promo_codes, settings, now, readded, web, reply>>

\* cb_claim: already = await get_setting(...); if already: edit_text; return
cb_claim_get_setting(c) ==
    /\ claim[c].pc = "get_setting"
    /\ LET already == get_setting(settings, gift_received(claim[c].user)) IN
       claim' = [claim EXCEPT
                    ![c].already = already,
                    ![c].pc = AfterReceiptCheck(already, DEFAULT_GIFT_ID),
                    ![c].result = IF already # None THEN "AlreadyClaimed" ELSE "none"]
    /\ UNCHANGED <<config, users, promo_codes, settings, now, readded, web, reply>>

\* cb_claim: sent = await try_send_star_gift(...): True, or False on failure
cb_claim_send_gift(c, sent) ==
    /\ claim[c].pc = "send_gift"
    /\ claim' = [claim EXCEPT ![c].sent = sent,
                    ![c].attempts = @ + 1,
                    ![c].pc = AfterStarGift(sent)]
    /\ UNCHANGED <<config, users, promo_codes, settings, now, readded, web, reply>>

\* take_code_for_user: SELECT code ... WHERE used_by IS NULL LIMIT 1;
\* if not row: return None, and cb_claim reports that the gifts ran out
cb_claim_take_select(c) ==
    /\ claim[c].pc = "take_select"
    /\ IF SelectCandidates(promo_codes) = {}
       THEN claim' = [claim EXCEPT ![c].pc = "done", ![c].takes = @ + 1,
                         ![c].result = "Exhausted"]
       ELSE \E r \in SelectCandidates(promo_codes) :
              claim' = [claim EXCEPT ![c].pc = "take_update", ![c].takes = @ + 1,
                           ![c].row = r.code]
    /\ UNCHANGED <<config, users, promo_codes, settings, now, readded, web, reply>>

\* take_code_for_user: UPDATE ... WHERE code=? opens the write transaction;
\* used_at is the time of the statement; other connections do not see the
\* change before the commit
cb_claim_take_update(c) ==
    /\ claim[c].pc = "take_update"
    /\ NoWriter
    /\ claim' = [claim EXCEPT ![c].pc = AfterUpdate, ![c].txn = TRUE,
                    ![c].used_at = now]
    /\ UNCHANGED <<config, users, promo_codes, settings, now, readded, web, reply>>

\* take_code_for_user: await db.commit(); return code, now; the connection
\* is closed on leaving `async with`
cb_claim_take_commit(c) ==
    /\ claim[c].pc = "take_commit"
    /\ promo_codes' =
         UpdateUsed(promo_codes, claim[c].row, claim[c].user, claim[c].used_at)
    /\ claim' = [claim EXCEPT ![c].pc = "send_promo", ![c].txn = FALSE,
                    ![c].code_row = claim[c].row]
    /\ UNCHANGED <<config, users, settings, now, readded, web, reply>>

\* cb_claim: ok = await try_send_promo(...); if not ok: edit_text; return
cb_claim_send_promo(c, ok) ==
    /\ claim[c].pc = "send_promo"
    /\ claim' = [claim EXCEPT ![c].ok = ok,
                    ![c].attempts = @ + 1,
                    ![c].pc = AfterSendPromo(ok),
                    ![c].result = IF ok THEN "none" ELSE "DeliveryFailed"]
    /\ UNCHANGED <<config, users, promo_codes, settings, now, readded, web, reply>>

\* cb_claim: if ONLY_ONCE: set_setting(gift_received_<id>, time); edit_text
cb_claim_mark(c) ==
    /\ claim[c].pc = "mark"
    /\ ONLY_ONCE => NoWriter
    /\ settings' = IF ONLY_ONCE
                   THEN set_setting(settings, gift_received(claim[c].user), now)
                   ELSE settings
    /\ claim' = [claim EXCEPT ![c].pc = "done",
                    ![c].result = IF claim[c].sent THEN "GrantedPremium"
                                  ELSE "GrantedToken"]
    /\ UNCHANGED <<config, users, promo_codes, now, readded, web, reply>>

AddLists == UNION {[1..n -> Codes] : n \in 1..MaxAddLen}

Next ==
    \/ Tick
    \/ \E codes \in AddLists : cmd_add(codes)
    \/ \E c \in Claims, u \in UserIds : cb_claim_begin(c, u)
    \/ \E c \in Claims : cb_claim_upsert_user(c)
    \/ \E c \in Claims, status \in MemberStatuses : cb_claim_is_subscribed(c, status)
    \/ \E c \in Claims : cb_claim_get_setting(c)
    \/ \E c \in Claims, sent \in BOOLEAN : cb_claim_send_gift(c, sent)
    \/ \E c \in Claims : cb_claim_take_select(c)
    \/ \E c \in Claims : cb_claim_take_update(c)
    \/ \E c \in Claims : cb_claim_take_commit(c)
    \/ \E c \in Claims, ok \in BOOLEAN : cb_claim_send_promo(c, ok)
    \/ \E c \in Claims : cb_claim_mark(c)

Spec == Init /\ [][Next]_vars

\* ---------------------------------------------------- derived observations

Done(c) == claim[c].pc = "done"

\* the cb_claim invocations whose take_code_for_user call returned a code
Returned == {c \in Claims : claim[c].code_row # None}

ConsumedRows(tbl) == {r \in tbl : r.used_by # None}

\* successful reward sends to user u: star gifts plus promo-code messages
Deliveries(u) ==
    Cardinality({c \in Claims : claim[c].user = u /\ claim[c].sent})
    + Cardinality({c \in Claims : claim[c].user = u /\ claim[c].ok})

ReceiptRows(u) == {r \in settings : r.key = gift_received(u)}

\* ----------------------------------------------------------------- claims

\* C1: take_code_for_user calls racing from distinct users never return the
\* same code to two callers, and every call that returned a code consumed a
\* row of its own (as many consumed rows as successful calls).
C1_AllocateExactlyOnce ==
    (\A c, d \in Returned : c # d => claim[c].user # claim[d].user) =>
        /\ \A c, d \in Returned : c # d => claim[c].code_row # claim[d].code_row
        /\ Cardinality(Returned) = Cardinality(ConsumedRows(promo_codes))

\* C2: with ONLY_ONCE, among the cb_claim calls of one user at most one ends
\* Granted, and the user holds at most one receipt row.
C2_OneGrantPerUser ==
    ONLY_ONCE =>
        \A u \in UserIds :
            /\ Cardinality({c \in Claims : /\ claim[c].user = u
                                           /\ claim[c].result \in Granted}) <= 1
            /\ Cardinality(ReceiptRows(u)) <= 1

\* C3: with ONLY_ONCE, a user receives at most one successful reward delivery
\* (star gift or promo-code message) over all of the user's claims.
C3_AtMostOneDelivery ==
    ONLY_ONCE => \A u \in UserIds : Deliveries(u) <= 1

\* C4: a consumed promo_codes row (used_by set) is never changed afterwards:
\* its used_by and used_at stay, and it never becomes available again.
C4_TokenMonotonic ==
    [][\A r \in promo_codes : r.used_by # None => r \in promo_codes']_vars

\* C5: add_codes is idempotent: from every reachable table and for every
\* list, existing rows (available or consumed) are kept as they are, no code
\* gets a second row, a list of known codes changes nothing, and adding the
\* list a second time changes nothing more.
C5_AddCodesIdempotent ==
    \A codes \in AddLists :
        LET once == add_codes(promo_codes, codes) IN
        /\ promo_codes \subseteq once
        /\ \A r, q \in once : r.code = q.code => r = q
        /\ (\A i \in DOMAIN codes : \E r \in promo_codes : r.code = codes[i])
               => once = promo_codes
        /\ add_codes(once, codes) = once

\* C5 witness: a /add has named an already consumed code, and that row is
\* still consumed.
C5_Witness ==
    /\ readded
    /\ ConsumedRows(promo_codes) # {}
    /\ \A r, q \in promo_codes : r.code = q.code => r = q

\* ------------------------------------------------- sequential claim runs
\* The handlers under a schedule that serves one cb_claim at a time, on a
\* pool that is filled (/add) only before the first claim arrives.
NoneInFlight == \A c \in Claims : ~InFlight(c)

SeqNext ==
    \/ Tick
    \/ \E codes \in AddLists :
         /\ \A c \in Claims : claim[c].pc = "idle"
         /\ cmd_add(codes)
    \/ \E c \in Claims, u \in UserIds : NoneInFlight /\ cb_claim_begin(c, u)
    \/ \E c \in Claims : cb_claim_upsert_user(c)
    \/ \E c \in Claims, status \in MemberStatuses : cb_claim_is_subscribed(c, status)
    \/ \E c \in Claims : cb_claim_get_setting(c)
    \/ \E c \in Claims, sent \in BOOLEAN : cb_claim_send_gift(c, sent)
    \/ \E c \in Claims : cb_claim_take_select(c)
    \/ \E c \in Claims : cb_claim_take_update(c)
    \/ \E c \in Claims : cb_claim_take_commit(c)
    \/ \E c \in Claims, ok \in BOOLEAN : cb_claim_send_promo(c, ok)
    \/ \E c \in Claims : cb_claim_mark(c)

SeqSpec == Init /\ [][SeqNext]_vars

\* C6: no gift configured, a pool of K codes, subscribed distinct users
\* claiming one after another with successful sends: the i-th claim ends
\* GrantedToken with a code of its own while i <= K and Exhausted after that,
\* and the number of available codes is K minus the number of grants.
C6_SequentialTokenClaims ==
    LET done == {c \in Claims : Done(c)}
        K == Cardinality(promo_codes)
        granted == {c \in done : claim[c].result = "GrantedToken"}
    IN  ( /\ DEFAULT_GIFT_ID = None
          /\ NoneInFlight
          /\ \A c, d \in done : c # d => claim[c].user # claim[d].user
          /\ \A c \in done : claim[c].sub /\ claim[c].result # "DeliveryFailed" )
        =>
        /\ \A c \in done :
             IF c <= K
             THEN claim[c].result = "GrantedToken" /\ claim[c].code_row # None
             ELSE claim[c].result = "Exhausted"
        /\ \A c, d \in granted : c # d => claim[c].code_row # claim[d].code_row
        /\ count_available_codes(promo_codes) = K - Cardinality(granted)

\* C6 witness: a pool of one code, the first user was granted it and the
\* second, a different user, found the pool exhausted.
C6_Witness ==
    /\ DEFAULT_GIFT_ID = None
    /\ Cardinality(promo_codes) = 1
    /\ claim[1].result = "GrantedToken" /\ claim[1].code_row # None
    /\ claim[2].result = "Exhausted"
    /\ claim[1].user # claim[2].user
    /\ count_available_codes(promo_codes) = 0

\* C7: once try_send_star_gift has returned True, no step of that cb_claim
\* call reads or changes promo_codes (no take_code_for_user call) and the
\* call ends GrantedPremium.
C7_PremiumLeavesPool ==
    [][\A c \in Claims :
         (claim'[c].sent /\ claim'[c].pc # claim[c].pc) =>
            /\ promo_codes' = promo_codes
            /\ claim'[c].takes = 0
            /\ claim'[c].code_row = None
            /\ claim'[c].pc \in {"mark", "done"}
            /\ (claim'[c].pc = "done" => claim'[c].result = "GrantedPremium")]_vars

\* C7 witness: a claim ended GrantedPremium while unused codes are in the pool.
C7_Witness ==
    \E c \in Claims :
        /\ Done(c) /\ claim[c].result = "GrantedPremium"
        /\ DEFAULT_GIFT_ID # None
        /\ count_available_codes(promo_codes) > 0

C9_LaterClaimAlreadyClaimed ==
    ONLY_ONCE =>
        \A c \in Claims :
            (claim[c].after_grant /\ Done(c)) =>
                /\ claim[c].result = "AlreadyClaimed"
                /\ claim[c].attempts = 0 /\ claim[c].takes = 0

\* C9 amended: with ONLY_ONCE, a claim begun after a Granted claim of the
\* same user has completed ends AlreadyClaimed when its subscription check
\* passes and NotSubscribed when it does not; no step of it changes
\* promo_codes or settings, takes a code or attempts a delivery.
C9_LaterClaimNoSecondGrant ==
    [][\A c \in Claims :
         (ONLY_ONCE /\ claim'[c].after_grant /\ claim'[c].pc # claim[c].pc) =>
            /\ promo_codes' = promo_codes
            /\ settings' = settings
            /\ claim'[c].attempts = 0 /\ claim'[c].takes = 0
            /\ (claim'[c].pc = "done" =>
                  claim'[c].result = IF claim'[c].sub THEN "AlreadyClaimed"
                                     ELSE "NotSubscribed")]_vars

\* C9 witness: a later claim of a granted user ended AlreadyClaimed while
\* unused codes were in the pool.
C9_Witness ==
    \E c \in Claims :
        /\ ONLY_ONCE /\ claim[c].after_grant /\ Done(c)
        /\ claim[c].result = "AlreadyClaimed"
        /\ count_available_codes(promo_codes) > 0

\* C10 as stated: a claim ending NotSubscribed has created no persisted
\* record at all (not even a users row) and attempted no delivery.
C10_NotSubscribedNoRecord ==
    \A c \in Claims :
        (Done(c) /\ claim[c].result = "NotSubscribed") =>
            /\ ~claim[c].inserted
            /\ claim[c].attempts = 0 /\ claim[c].takes = 0

\* C10 amended: a claim whose subscription check fails ends NotSubscribed at
\* that check; no step of it changes settings or promo_codes, takes a code
\* or attempts a delivery; the only record it may create is the users row of
\* its own user (upsert_user, before the check).
C10_NotSubscribedNoReward ==
    [][\A c \in Claims :
         (~claim'[c].sub /\ claim'[c].pc # claim[c].pc) =>
            /\ settings' = settings
            /\ promo_codes' = promo_codes
            /\ \/ users' = users
               \/ /\ claim[c].pc = "upsert_user"
                  /\ users' = users \cup
                        {[user_id |-> claim[c].user, first_seen |-> now]}
            /\ claim'[c].attempts = 0 /\ claim'[c].takes = 0
            /\ (claim[c].pc = "is_subscribed" =>
                  claim'[c].pc = "done" /\ claim'[c].result = "NotSubscribed")]_vars

\* C10 witness: a claim ended NotSubscribed, its upsert_user had inserted the
\* user's row, and unused codes are in the pool.
C10_Witness ==
    \E c \in Claims :
        /\ Done(c) /\ claim[c].result = "NotSubscribed" /\ claim[c].inserted
        /\ \E r \in users : r.user_id = claim[c].user
        /\ count_available_codes(promo_codes) > 0

\* C11: a cb_claim call that ends Exhausted or DeliveryFailed writes no
\* receipt: the step that ends it leaves settings unchanged, and a user whose
\* claims so far all failed has no receipt row; a claim of that user that
\* then reaches the receipt check is not answered AlreadyClaimed but goes on
\* to the delivery.
C11_FailedClaimNoReceipt ==
    /\ [](\A u \in UserIds :
            ( /\ \E c \in Claims : claim[c].user = u /\ Done(c)
                                   /\ claim[c].result \in {"Exhausted", "DeliveryFailed"}
              /\ \A c \in Claims : claim[c].user = u =>
                    claim[c].pc # "mark" /\ claim[c].result \notin Granted )
            => ReceiptRows(u) = {})
    /\ [][\A c \in Claims :
            /\ ( /\ claim[c].pc = "take_select" /\ claim'[c].pc # "take_select"
                 /\ SelectCandidates(promo_codes) = {} )
               => /\ claim'[c].pc = "done" /\ claim'[c].result = "Exhausted"
                  /\ settings' = settings
            /\ (claim[c].pc = "send_promo" /\ ~claim'[c].ok /\ claim'[c].attempts # claim[c].attempts)
               => /\ claim'[c].pc = "done" /\ claim'[c].result = "DeliveryFailed"
                  /\ settings' = settings
            /\ ( /\ claim[c].pc = "get_setting" /\ claim'[c].pc # "get_setting"
                 /\ ReceiptRows(claim[c].user) = {} )
               => /\ claim'[c].pc \in {"send_gift", "take_select"}
                  /\ claim'[c].result = "none" ]_vars

\* C11 witness: a user's claim ended DeliveryFailed, no receipt row exists,
\* and a later claim of the same user has passed the receipt check.
C11_Witness ==
    \E c, d \in Claims :
        /\ ONLY_ONCE /\ c # d /\ claim[c].user = claim[d].user
        /\ Done(c) /\ claim[c].result = "DeliveryFailed"
        /\ ReceiptRows(claim[c].user) = {}
        /\ claim[d].pc \in {"send_gift", "take_select"}
        /\ claim[d].already = None

\* C12: when the delivery of an allocated token fails, the claim ends
\* DeliveryFailed and the token stays consumed and owned by that user: its row
\* is kept with used_by equal to the claimant, and no later claim is handed
\* the same code.
C12_FailedDeliveryKeepsOwner ==
    \A c \in Claims :
        (Done(c) /\ claim[c].result = "DeliveryFailed") =>
            /\ \E r \in promo_codes : r.code = claim[c].code_row /\ r.used_by = claim[c].user
            /\ \A d \in Claims : d # c => claim[d].code_row # claim[c].code_row

\* C13: a failure of the membership lookup is absorbed by is_subscribed: the
\* lookup that raised yields a false result, exactly as a non-member status
\* does, and the claim that made it ends NotSubscribed with no delivery
\* attempted, no code taken and no receipt written by it.
C13_LookupFailureIsNotSubscribed ==
    /\ ~is_subscribed("raise")
    /\ AfterSubscribed(is_subscribed("raise"), ONLY_ONCE, DEFAULT_GIFT_ID)
           = AfterSubscribed(is_subscribed("left"), ONLY_ONCE, DEFAULT_GIFT_ID)
    /\ \A c \in Claims :
          claim[c].raised =>
              /\ ~claim[c].sub
              /\ Done(c) /\ claim[c].result = "NotSubscribed"
              /\ claim[c].attempts = 0 /\ claim[c].takes = 0
              /\ ~claim[c].sent /\ ~claim[c].ok
              /\ claim[c].code_row = None /\ claim[c].row = None
              /\ ~claim[c].txn

C13_Witness ==
    \E c \in Claims :
        /\ claim[c].raised /\ Done(c) /\ claim[c].result = "NotSubscribed"
        /\ count_available_codes(promo_codes) > 0
        /\ ReceiptRows(claim[c].user) = {}

\* ------------------------------------------------------- webhook (push mode)
\* What a POST to WEBHOOK_PATH may carry: a callback query with data "claim",
\* an update no handler acts on, or a body that request.json() or
\* types.Update(**update) rejects.
Bodies == {"claim", "other", "malformed"}

\* mutant: tg_webhook without its webhook_ready guard
DiscardsNever(ready) == FALSE

\* tg_webhook: `if not webhook_ready: return Response(status_code=200)`
Discards(ready) == ~ready

\* The uvicorn process: the module is imported (webhook_ready = False) and the
\* startup event has not run yet.
WebInit ==
    /\ BaseInit
    /\ WEBHOOK_URL \in {"", "url"}
    /\ startup_state = "pending"

\* startup: set_webhook succeeds (ok) or raises; without WEBHOOK_URL the flag
\* is reset to False.
startup(ok) ==
    /\ startup_state = "pending"
    /\ IF WEBHOOK_URL # ""
          THEN IF ok THEN webhook_ready' = TRUE /\ startup_state' = "ok"
                     ELSE webhook_ready' = webhook_ready /\ startup_state' = "failed"
          ELSE webhook_ready' = FALSE /\ startup_state' = "polling"
    /\ UNCHANGED <<config, users, promo_codes, settings, now, claim, readded,
                   WEBHOOK_URL, request, reply>>

\* tg_webhook: a request arrives after startup; the guard either answers 200
\* at once or lets the request go on to `await request.json()`.
tg_webhook_begin(r, body, u) ==
    /\ startup_state # "pending"
    /\ request[r].pc = "idle"
    /\ \A q \in Requests : q < r => request[q].pc # "idle"
    /\ request' = [request EXCEPT
                      ![r] = IF Discards(webhook_ready)
                               THEN [IdleRequest EXCEPT !.pc = "responded", !.body = body,
                                                        !.user = u, !.status = 200]
                               ELSE [IdleRequest EXCEPT !.pc = "parse", !.body = body,
                                                        !.user = u]]
    /\ UNCHANGED <<config, users, promo_codes, settings, now, claim, readded,
                   WEBHOOK_URL, startup_state, webhook_ready, reply>>

\* tg_webhook: request.json() and types.Update(**update); an exception leaves
\* the route and the server answers 500.
tg_webhook_parse(r) ==
    /\ request[r].pc = "parse"
    /\ request' = [request EXCEPT
                      ![r].pc = IF request[r].body = "malformed" THEN "responded" ELSE "feed",
                      ![r].status = IF request[r].body = "malformed" THEN 500 ELSE 0]
    /\ UNCHANGED <<config, users, promo_codes, settings, now, claim, readded,
                   WEBHOOK_URL, startup_state, webhook_ready, reply>>

\* tg_webhook: `await dp.feed_update(...)` starts the handler of the update
tg_webhook_feed(r) ==
    /\ request[r].pc = "feed"
    /\ IF request[r].body = "claim"
          THEN \E c \in Claims :
                 /\ BeginClaim(c, request[r].user)
                 /\ request' = [request EXCEPT ![r].pc = "await", ![r].claim = c]
          ELSE /\ request' = [request EXCEPT ![r].pc = "await"]
               /\ claim' = claim
    /\ UNCHANGED <<config, users, promo_codes, settings, now, readded,
                   WEBHOOK_URL, startup_state, webhook_ready, reply>>

\* tg_webhook: feed_update has returned; `return Response(status_code=200)`
tg_webhook_respond(r) ==
    /\ request[r].pc = "await"
    /\ request[r].claim # None => Done(request[r].claim)
    /\ request' = [request EXCEPT ![r].pc = "responded", ![r].status = 200]
    /\ UNCHANGED <<config, users, promo_codes, settings, now, claim, readded,
                   WEBHOOK_URL, startup_state, webhook_ready, reply>>

WebNext ==
    \/ \E ok \in BOOLEAN : startup(ok)
    \/ \E r \in Requests, body \in Bodies, u \in UserIds : tg_webhook_begin(r, body, u)
    \/ \E r \in Requests : tg_webhook_parse(r)
    \/ \E r \in Requests : tg_webhook_feed(r)
    \/ \E r \in Requests : tg_webhook_respond(r)
    \/ \E c \in Claims : cb_claim_upsert_user(c)
    \/ \E c \in Claims, status \in MemberStatuses : cb_claim_is_subscribed(c, status)
    \/ \E c \in Claims : cb_claim_get_setting(c)
    \/ \E c \in Claims, sent \in BOOLEAN : cb_claim_send_gift(c, sent)
    \/ \E c \in Claims : cb_claim_take_select(c)
    \/ \E c \in Claims : cb_claim_take_update(c)
    \/ \E c \in Claims : cb_claim_take_commit(c)
    \/ \E c \in Claims, ok \in BOOLEAN : cb_claim_send_promo(c, ok)
    \/ \E c \in Claims : cb_claim_mark(c)

WebSpec == WebInit /\ [][WebNext]_vars

\* C14: in push mode every incoming event is acknowledged with HTTP 200
\* immediately and unconditionally: every answer given is a 200, and the
\* processing of an event (its handler) runs only with the answer already
\* given, so the answer neither waits for it nor depends on its outcome.
C14_AckImmediateUnconditional ==
    \A r \in Requests :
        /\ request[r].pc = "responded" => request[r].status = 200
        /\ request[r].claim # None => request[r].pc = "responded"

\* C20: an event is handed to processing only if set_webhook succeeded at
\* startup; an event arriving while webhook_ready is false is answered 200
\* and discarded: it starts no claim and changes no table.
C20_DiscardUntilReady ==
    /\ [](/\ webhook_ready <=> startup_state = "ok"
          /\ \A r \in Requests :
                ( \/ request[r].pc \in {"parse", "feed", "await"}
                  \/ request[r].claim # None
                  \/ request[r].status = 500 ) => webhook_ready
          /\ ~webhook_ready =>
                /\ \A r \in Requests :
                      /\ request[r].pc \in {"idle", "responded"}
                      /\ request[r].pc = "responded" =>
                            request[r].status = 200 /\ request[r].claim = None
                /\ claim = [c \in Claims |-> IdleClaim]
                /\ users = {} /\ settings = {} /\ ConsumedRows(promo_codes) = {})
    /\ [][\A r \in Requests :
            (request[r].pc = "idle" /\ request'[r].pc # "idle" /\ ~webhook_ready) =>
                /\ request'[r].pc = "responded" /\ request'[r].status = 200
                /\ request'[r].claim = None
                /\ claim' = claim /\ users' = users
                /\ promo_codes' = promo_codes /\ settings' = settings]_vars

C20_Witness ==
    \E r \in Requests :
        /\ startup_state = "failed" /\ ~webhook_ready
        /\ request[r].pc = "responded" /\ request[r].body = "claim"
        /\ request[r].status = 200
        /\ claim = [c \in Claims |-> IdleClaim]
        /\ count_available_codes(promo_codes) > 0

\* ------------------------------------------------------------ admin queries
\* export_remaining_codes: `if limit:` adds LIMIT ? only for a truthy limit
\* (None and 0 are falsy); the value is the set of lists SQLite may return.
export_remaining_codes(tbl, limit) ==
    IF limit # NoLimit /\ limit # 0
      THEN {S \in SUBSET {r.code : r \in AvailableRows(tbl)} :
              Cardinality(S) = IF limit < Cardinality(AvailableRows(tbl))
                                 THEN limit ELSE Cardinality(AvailableRows(tbl))}
      ELSE {{r.code : r \in AvailableRows(tbl)}}

\* cmd_balance: left = await count_available_codes()
cmd_balance ==
    /\ reply' = [cmd |-> "balance", limit |-> NoLimit, codes |-> {},
                 left |-> count_available_codes(promo_codes)]
    /\ UNCHANGED <<config, users, promo_codes, settings, now, claim, readded, web>>

\* cmd_export: limit is None or int(parts[0]); codes = export_remaining_codes(limit)
cmd_export(limit) ==
    /\ \E codes \in export_remaining_codes(promo_codes, limit) :
          reply' = [cmd |-> "export", limit |-> limit, codes |-> codes, left |-> 0]
    /\ UNCHANGED <<config, users, promo_codes, settings, now, claim, readded, web>>

AdminNext ==
    \/ SeqNext
    \/ cmd_balance
    \/ \E limit \in Limits \cup {NoLimit} : cmd_export(limit)

AdminSpec == Init /\ [][AdminNext]_vars

\* C15: count_available_codes and export_remaining_codes are read-only and
\* reflect the committed table: a query changes no row, the count is exactly
\* the number of unused codes, and the export holds only unused codes, all of
\* them without a limit and at most `limit` of them for every limit, 0 included.
C15_ReadOnlyQueries ==
    [][(reply' # reply) =>
          /\ promo_codes' = promo_codes /\ settings' = settings /\ users' = users
          /\ reply'.cmd = "balance" =>
                reply'.left = Cardinality({r \in promo_codes : r.used_by = None})
          /\ reply'.cmd = "export" =>
                /\ reply'.codes \subseteq {r.code : r \in {q \in promo_codes : q.used_by = None}}
                /\ reply'.limit = NoLimit =>
                      reply'.codes = {r.code : r \in {q \in promo_codes : q.used_by = None}}
                /\ reply'.limit # NoLimit => Cardinality(reply'.codes) <= reply'.limit]_vars

\* C16: claims of one user are mutually exclusive: while a claim of a user is
\* between its receipt check and the end of its receipt write or failure, no
\* other claim of the same user is past the receipt check.
C16_ClaimsOfUserExclusive ==
    \A c, d \in Claims :
        (c # d /\ claim[c].user = claim[d].user /\ ONLY_ONCE) =>
            ~( /\ claim[c].pc \in {"send_gift", "take_select", "take_update",
                                   "take_commit", "send_promo", "mark"}
               /\ claim[d].pc \in {"send_gift", "take_select", "take_update",
                                   "take_commit", "send_promo", "mark"} )

\* C17: a receipt is written only after a delivery succeeded: whenever the row
\* gift_received_<user> exists, a finished claim of that user has a successful
\* premium or token delivery and a granted result.
C17_ReceiptAfterDelivery ==
    /\ [](\A u \in UserIds :
            ReceiptRows(u) # {} =>
                \E c \in Claims : /\ claim[c].user = u
                                  /\ claim[c].sent \/ claim[c].ok
                                  /\ Done(c) /\ claim[c].result \in Granted)
    /\ [][\A c \in Claims :
            (ReceiptRows(claim[c].user) = {} /\ claim[c].pc = "mark" /\ claim'[c].pc = "done"
             /\ settings' # settings) =>
                /\ claim[c].sent \/ claim[c].ok
                /\ settings' = set_setting(settings, gift_received(claim[c].user), now)]_vars

C17_Witness ==
    \E c \in Claims :
        /\ ReceiptRows(claim[c].user) # {}
        /\ Done(c) /\ claim[c].result = "GrantedToken" /\ claim[c].ok
        /\ \E d \in Claims : d # c /\ claim[d].result = "DeliveryFailed"

\* C18: no external call (membership lookup, gift send, message send) is made
\* by a call that holds an open write transaction on the code table: at each
\* of these calls the caller's transaction is closed, and when the message
\* with the code is about to be sent the code's row is already committed as
\* used.
C18_NoNetworkCallInTransaction ==
    \A c \in Claims :
        claim[c].pc \in {"is_subscribed", "send_gift", "send_promo"} =>
            /\ ~claim[c].txn
            /\ claim[c].pc = "send_promo" =>
                  \E r \in promo_codes : r.code = claim[c].code_row /\ r.used_by # None

C18_Witness ==
    \E c \in Claims :
        /\ claim[c].pc = "send_promo" /\ ~claim[c].txn
        /\ \E r \in promo_codes : /\ r.code = claim[c].code_row
                                   /\ r.used_by = claim[c].user
        /\ \E d \in Claims : d # c /\ claim[d].txn

\* C19: every promo code that was sent in a message to a user is recorded in
\* promo_codes as used by that same user.
C19_SentCodeOwnedByRecipient ==
    \A c \in Claims :
        claim[c].ok =>
            \E r \in promo_codes : r.code = claim[c].code_row /\ r.used_by = claim[c].user
====
